---------------------------- MODULE Spec2Model ----------------------------
(***************************************************************************)
(* Model of the Redactor plugin (src/main.ts).                             *)
(*                                                                         *)
(* A string is a sequence of one-character strings, one element per        *)
(* UTF-16 code unit (what String.prototype.length counts).  A path is a    *)
(* sequence of path segments.  The empty sequence is the empty string.     *)
(***************************************************************************)
EXTENDS Integers, Sequences, FiniteSets, TLC

VARIABLES
    settings,       \* this.settings (main.ts:20), an object over Fields
    defaults,       \* the DEFAULT_SETTINGS object (main.ts:12-17)
    data,           \* the plugin's persisted data: <<>> (none) or <<object>>
    loaded,         \* onload has run loadSettings
    pendingSaves,   \* saveData calls issued and not yet completed, oldest first
    edited,         \* some settings-edit handler has run
    doc,            \* the editor buffer (editor.getValue())
    sel,            \* the selection [from, to], offsets into doc; from = to is a caret
    activeFile,     \* view.file: <<>> (null) or <<path>>
    dirs,           \* directories that exist on disk
    files,          \* files written so far: set of [path, content]
    invs,           \* the 'Redact and Extract' invocations, in order of start
    last,           \* the handler step taken last
    inText,         \* input of the transform taken alone
    inMarker,
    inSymbol,
    redacted,       \* the transform's result, <<result>> once applied
    redactedTwice   \* the transform applied to its own result

vars == << settings, defaults, data, loaded, pendingSaves, edited, doc, sel,
           activeFile, dirs, files, invs, last,
           inText, inMarker, inSymbol, redacted, redactedTwice >>

progVars == << settings, defaults, data, loaded, pendingSaves, edited, doc, sel,
               activeFile, dirs, files, invs, last >>

pureVars == << inText, inMarker, inSymbol, redacted, redactedTwice >>

---------------------------------------------------------------------------
(* Bounds of the model. *)

MaxLen == 8          \* longest text given to the transform taken alone
MaxDocLen == 3       \* longest document an editing command is taken on
MaxInvocations == 2  \* 'Redact and Extract' invocations started in one run
MaxPending == 2      \* saveData calls in flight at once

---------------------------------------------------------------------------
(* Strings. *)

Dot == "."           \* the regex metacharacter modelled: any character (flag s)
NL == "\n"

Min(S) == CHOOSE x \in S : \A y \in S : x <= y

Max(S) == CHOOSE x \in S : \A y \in S : x >= y

StringsOver(alphabet, n) == UNION { [1..k -> alphabet] : k \in 0..n }

\* String.prototype.repeat (main.ts:35)
RECURSIVE Repeat(_, _)
Repeat(s, n) == IF n <= 0 THEN <<>> ELSE s \o Repeat(s, n - 1)

---------------------------------------------------------------------------
(* The transform: fileContent.replace(new RegExp(m + "(.*?)" + m, "gs"), f) *)

\* The marker, spliced unescaped into the pattern, matched at position i:
\* every pattern character consumes one text character, "." any character.
PatAt(t, i, m) ==
    /\ i >= 1
    /\ i + Len(m) - 1 <= Len(t)
    /\ \A k \in 1..Len(m) : m[k] = Dot \/ m[k] = t[i + k - 1]

\* Where the closing marker of a match opened at i can start.
Closings(t, i, m) == { j \in (i + Len(m))..(Len(t) + 1) : PatAt(t, j, m) }

\* The pattern matches at i; the lazy group takes the nearest closing marker.
MatchAt(t, i, m) == PatAt(t, i, m) /\ Closings(t, i, m) # {}

CloseOf(t, i, m) == Min(Closings(t, i, m))

\* A replacer that returns the mask symbol once, whatever was captured.
MaskOnce(sym, captured) == IF captured = 0 THEN <<>> ELSE sym

\* The replacer function (main.ts:35): the mask symbol once per captured unit.
Mask(sym, captured) == Repeat(sym, captured)

\* The global replace from position i on: a match is replaced and the scan
\* resumes after it (after an empty match, one character further on);
\* anything else is copied.
RECURSIVE ReplaceFrom(_, _, _, _)
ReplaceFrom(t, i, m, sym) ==
    LET copy == IF i <= Len(t) THEN << t[i] >> ELSE <<>>
    IN  IF i > Len(t) + 1 THEN <<>>
        ELSE IF MatchAt(t, i, m)
             THEN LET j == CloseOf(t, i, m)
                      e == j + Len(m)
                  IN  Mask(sym, j - i - Len(m)) \o
                      (IF e = i THEN copy \o ReplaceFrom(t, i + 1, m, sym)
                                ELSE ReplaceFrom(t, e, m, sym))
             ELSE copy \o ReplaceFrom(t, i + 1, m, sym)

\* The replace without the g flag: the first match only.
ExtractFirst(t, m, sym) ==
    LET at == { i \in 1..(Len(t) + 1) : MatchAt(t, i, m) }
    IN  IF at = {} THEN t
        ELSE SubSeq(t, 1, Min(at) - 1) \o
             Mask(sym, CloseOf(t, Min(at), m) - Min(at) - Len(m)) \o
             SubSeq(t, CloseOf(t, Min(at), m) + Len(m), Len(t))

Extract(t, m, sym) == ReplaceFrom(t, 1, m, sym)

---------------------------------------------------------------------------
(* Settings (main.ts:5-17, 108-114). *)

Fields == { "redactedFolderPath", "redactionSymbol", "redactionMarker",
            "redactionShortcut" }

\* What reading a property an object does not have yields.
Undefined == << "undefined" >>

EmptyObject == [f \in Fields |-> Undefined]

DEFAULT_SETTINGS ==
    [ redactedFolderPath |-> <<>>,
      redactionSymbol    |-> << "U+00E2", "U+2013", "U+02C6" >>,
      redactionMarker    |-> << "=", "=" >>,
      redactionShortcut  |-> << "Ctrl+Shift+R" >> ]

\* Object.assign(target, source): the source's own properties overwrite.
ObjectAssign(target, source) ==
    [f \in Fields |-> IF source[f] # Undefined THEN source[f] ELSE target[f]]

\* loadData() resolves to null when nothing was saved; Object.assign skips it.
SourceOf(persisted) == IF persisted = <<>> THEN EmptyObject ELSE persisted[1]

\* The sources in the other order: the defaults overwrite the persisted data.
LoadDefaultsLast(defs, persisted) ==
    [ settings |-> ObjectAssign(ObjectAssign(EmptyObject, SourceOf(persisted)), defs),
      defaults |-> defs ]

\* Object.assign({}, DEFAULT_SETTINGS, await this.loadData()): the result, and
\* DEFAULT_SETTINGS after the call (only the first argument is written to).
LoadSettingsResult(defs, persisted) ==
    [ settings |-> ObjectAssign(ObjectAssign(EmptyObject, defs), SourceOf(persisted)),
      defaults |-> defs ]

\* onload: loadSettings, then the commands and the settings tab are registered.
Onload ==
    /\ ~loaded
    /\ LET r == LoadSettingsResult(defaults, data)
       IN  /\ settings' = r.settings
           /\ defaults' = r.defaults
    /\ loaded' = TRUE
    /\ last' = [op |-> "step", busy |-> FALSE]
    /\ UNCHANGED << data, pendingSaves, edited, doc, sel, activeFile, dirs,
                    files, invs >>
    /\ UNCHANGED pureVars

\* The invocations of 'Redact and Extract' that are awaiting a call.
InFlight == { i \in DOMAIN invs : invs[i].pc \in {"access", "mkdir", "write"} }

\* A handler that does not call saveSettings.
SaveNothing(pending, s) == pending

\* saveSettings: saveData(this.settings) is called with the settings as they
\* are, and completes later.
SaveSettings(pending, s) == Append(pending, s)

\* An onChange handler of the settings tab (main.ts:136-139, 147-150,
\* 158-161, 169-172).
SettingsEdit(f, v) ==
    /\ loaded
    /\ Len(pendingSaves) < MaxPending
    /\ settings' = [settings EXCEPT ![f] = v]
    /\ pendingSaves' = SaveSettings(pendingSaves, settings')
    /\ edited' = TRUE
    /\ last' = [op |-> "settingsEdit", busy |-> InFlight # {}]
    /\ UNCHANGED << defaults, data, loaded, doc, sel, activeFile, dirs, files, invs >>
    /\ UNCHANGED pureVars

\* The oldest saveData call completes: the plugin's data file holds what it
\* was given.
SaveComplete ==
    /\ pendingSaves # <<>>
    /\ data' = << Head(pendingSaves) >>
    /\ pendingSaves' = Tail(pendingSaves)
    /\ last' = [op |-> "step", busy |-> FALSE]
    /\ UNCHANGED << settings, defaults, loaded, edited, doc, sel, activeFile,
                    dirs, files, invs >>
    /\ UNCHANGED pureVars

---------------------------------------------------------------------------
(* The editor: a buffer, and a selection given by two offsets. *)

Whitespace == { " ", "\t", NL }

\* String.prototype.split('\n')
RECURSIVE SplitLines(_)
SplitLines(s) ==
    LET nls == { i \in 1..Len(s) : s[i] = NL }
    IN  IF nls = {} THEN << s >>
        ELSE << SubSeq(s, 1, Min(nls) - 1) >> \o
             SplitLines(SubSeq(s, Min(nls) + 1, Len(s)))

\* Array.prototype.join('\n')
RECURSIVE JoinLines(_)
JoinLines(lines) ==
    IF Len(lines) = 0 THEN <<>>
    ELSE IF Len(lines) = 1 THEN lines[1]
    ELSE lines[1] \o << NL >> \o JoinLines(Tail(lines))

\* String.prototype.trim
RECURSIVE Trim(_)
Trim(s) ==
    IF s = <<>> THEN s
    ELSE IF s[1] \in Whitespace THEN Trim(Tail(s))
    ELSE IF s[Len(s)] \in Whitespace THEN Trim(SubSeq(s, 1, Len(s) - 1))
    ELSE s

\* A callback that wraps the trimmed line.
WrapTrimmed(line, m) == IF Trim(line) # <<>> THEN m \o Trim(line) \o m ELSE line

\* The map callback (main.ts:63-69).
WrapLine(line, m) == IF Trim(line) # <<>> THEN m \o line \o m ELSE line

WrapLines(lines, m) == [i \in 1..Len(lines) |-> WrapLine(lines[i], m)]

\* editor.replaceRange / replaceSelection on offsets from..to.
ReplaceRange(d, from, to, s) ==
    SubSeq(d, 1, from) \o s \o SubSeq(d, to + 1, Len(d))

\* The editor's position {line, ch} of an offset, and back.
PosOf(d, off) ==
    LET before == { i \in 1..off : d[i] = NL }
    IN  [ line |-> Cardinality(before),
          ch   |-> IF before = {} THEN off ELSE off - Max(before) ]

OffsetOf(d, pos) ==
    LET starts == { o \in 0..Len(d) : PosOf(d, o) = [line |-> pos.line, ch |-> 0] }
        ends   == { o \in 0..Len(d) : PosOf(d, o).line = pos.line }
    IN  IF starts = {} THEN Len(d)
        ELSE IF Min(starts) + pos.ch > Max(ends) THEN Max(ends)
        ELSE Min(starts) + pos.ch

\* 'Toggle Redaction Marker' (main.ts:57-77).
Toggle ==
    /\ loaded
    /\ Len(doc) <= MaxDocLen
    /\ LET selectedText == SubSeq(doc, sel.from + 1, sel.to)
           marker == settings.redactionMarker
       IN  IF selectedText # <<>>
           THEN LET wrappedText == JoinLines(WrapLines(SplitLines(selectedText), marker))
                IN  /\ doc' = ReplaceRange(doc, sel.from, sel.to, wrappedText)
                    /\ sel' = [from |-> sel.from + Len(wrappedText),
                               to   |-> sel.from + Len(wrappedText)]
           ELSE LET cursor == PosOf(doc, sel.to)
                    at == OffsetOf(doc, cursor)
                    after == [line |-> cursor.line, ch |-> cursor.ch + Len(marker)]
                IN  /\ doc' = ReplaceRange(doc, at, at, marker)
                    /\ sel' = [from |-> OffsetOf(doc', after), to |-> OffsetOf(doc', after)]
    /\ last' = [op |-> "toggle", busy |-> InFlight # {},
                doc |-> doc, sel |-> sel, marker |-> settings.redactionMarker]
    /\ UNCHANGED << settings, defaults, data, loaded, pendingSaves, edited,
                    activeFile, dirs, files, invs >>
    /\ UNCHANGED pureVars

---------------------------------------------------------------------------
(* 'Redact and Extract' (main.ts:28-51) and the file system. *)

\* path.join and path.dirname on paths of plain segments.
PathJoin(folder, file) == folder \o file

Dirname(path) == SubSeq(path, 1, Len(path) - 1)

\* mkdir with {recursive: true} creates the directory and its ancestors.
Ancestors(dir) == { SubSeq(dir, 1, k) : k \in 0..Len(dir) }

\* A handler that looks for the active file before the output path.
StartOutcomeFileFirst(fileContent, s, file) ==
    IF file = <<>>
    THEN [ pc |-> "done", transformed |-> FALSE, path |-> <<>>, content |-> <<>>,
           notices |-> << "No active file found." >> ]
    ELSE IF s.redactedFolderPath = <<>>
    THEN [ pc |-> "done", transformed |-> FALSE, path |-> <<>>, content |-> <<>>,
           notices |-> << "Please set the redacted folder path in the plugin settings." >> ]
    ELSE [ pc |-> "access", transformed |-> TRUE,
           path |-> s.redactedFolderPath \o file[1],
           content |-> ReplaceFrom(fileContent, 1, s.redactionMarker, s.redactionSymbol),
           notices |-> <<>> ]

\* The synchronous part of the handler, up to its first await: the document,
\* the settings and the active file are read here and nowhere later.
StartOutcome(fileContent, s, file) ==
    LET redactedFolderPath == s.redactedFolderPath
    IN  IF redactedFolderPath # <<>>
        THEN LET redactedFileContent ==
                     Extract(fileContent, s.redactionMarker, s.redactionSymbol)
             IN  IF file # <<>>
                 THEN [ pc |-> "access", transformed |-> TRUE,
                        path |-> PathJoin(redactedFolderPath, file[1]),
                        content |-> redactedFileContent, notices |-> <<>> ]
                 ELSE [ pc |-> "done", transformed |-> TRUE,
                        path |-> <<>>, content |-> redactedFileContent,
                        notices |-> << "No active file found." >> ]
        ELSE [ pc |-> "done", transformed |-> FALSE, path |-> <<>>, content |-> <<>>,
               notices |-> << "Please set the redacted folder path in the plugin settings." >> ]

NewInvocation(fileContent, s, file) ==
    [ pc          |-> StartOutcome(fileContent, s, file).pc,
      transformed |-> StartOutcome(fileContent, s, file).transformed,
      path        |-> StartOutcome(fileContent, s, file).path,
      content     |-> StartOutcome(fileContent, s, file).content,
      notices     |-> StartOutcome(fileContent, s, file).notices,
      mkdirs      |-> <<>>,      \* directories mkdir was called on
      writes      |-> <<>>,      \* arguments writeFile was called with
      failed      |-> FALSE,     \* mkdir or writeFile rejected
      start       |-> [doc |-> fileContent, settings |-> s, file |-> file] ]

RedactStart ==
    /\ loaded
    /\ Len(invs) < MaxInvocations
    /\ invs' = Append(invs, NewInvocation(doc, settings, activeFile))
    /\ last' = [op |-> "redactStart", busy |-> InFlight # {}]
    /\ UNCHANGED << settings, defaults, data, loaded, pendingSaves, edited, doc,
                    sel, activeFile, dirs, files >>
    /\ UNCHANGED pureVars

\* A handler that reads the editor and the settings again after its awaits.
WriteArgsLate(inv, curDoc, curSettings) ==
    [ path    |-> inv.path,
      content |-> Extract(curDoc, curSettings.redactionMarker, curSettings.redactionSymbol) ]

\* What writeFile is called with (main.ts:43): the handler's two constants.
WriteArgs(inv, curDoc, curSettings) == [path |-> inv.path, content |-> inv.content]

\* exists() resolves (main.ts:96-103): mkdir is called only for a missing
\* directory (main.ts:91-93), otherwise writeFile is called.
RedactAccess(i) ==
    /\ i \in DOMAIN invs
    /\ invs[i].pc = "access"
    /\ IF Dirname(invs[i].path) \in dirs
       THEN invs' = [invs EXCEPT ![i].pc = "write",
                                 ![i].writes = Append(@, WriteArgs(invs[i], doc, settings))]
       ELSE invs' = [invs EXCEPT ![i].pc = "mkdir",
                                 ![i].mkdirs = Append(@, Dirname(invs[i].path))]
    /\ last' = [op |-> "step", busy |-> FALSE]
    /\ UNCHANGED << settings, defaults, data, loaded, pendingSaves, edited, doc,
                    sel, activeFile, dirs, files >>
    /\ UNCHANGED pureVars

\* What the handler does when an awaited file-system call rejects: nothing
\* catches it, the handler's promise rejects and no notice is shown.
OnIoFailure(inv) == [inv EXCEPT !.pc = "rejected", !.failed = TRUE]

\* mkdir settles (main.ts:92); on success writeFile is called.
RedactMkdir(i, ok) ==
    /\ i \in DOMAIN invs
    /\ invs[i].pc = "mkdir"
    /\ IF ok
       THEN /\ dirs' = dirs \cup Ancestors(Dirname(invs[i].path))
            /\ invs' = [invs EXCEPT ![i].pc = "write",
                                    ![i].writes = Append(@, WriteArgs(invs[i], doc, settings))]
       ELSE /\ dirs' = dirs
            /\ invs' = [invs EXCEPT ![i] = OnIoFailure(invs[i])]
    /\ last' = [op |-> "step", busy |-> FALSE]
    /\ UNCHANGED << settings, defaults, data, loaded, pendingSaves, edited, doc,
                    sel, activeFile, files >>
    /\ UNCHANGED pureVars

\* writeFile settles (main.ts:43-44).
RedactWrite(i, ok) ==
    /\ i \in DOMAIN invs
    /\ invs[i].pc = "write"
    /\ LET args == invs[i].writes[Len(invs[i].writes)]
       IN  IF ok
           THEN /\ files' = { f \in files : f.path # args.path } \cup { args }
                /\ invs' = [invs EXCEPT ![i].pc = "done",
                                        ![i].notices = Append(@, "Redacted text extracted to")]
           ELSE /\ files' = files
                /\ invs' = [invs EXCEPT ![i] = OnIoFailure(invs[i])]
    /\ last' = [op |-> "redactWrite", busy |-> FALSE, inv |-> i]
    /\ UNCHANGED << settings, defaults, data, loaded, pendingSaves, edited, doc,
                    sel, activeFile, dirs >>
    /\ UNCHANGED pureVars

---------------------------------------------------------------------------
(* The transform taken alone. *)

TextAlphabet == { "a", "b" }

Markers == { <<>>, <<"a">>, <<"a", "a">>, <<"a", "b">>, <<Dot>> }

Symbols == { <<>>, <<"#">>, <<"#", "%">>, <<"a">> }

InitProg ==
    /\ settings = EmptyObject
    /\ defaults = DEFAULT_SETTINGS
    /\ data = <<>>
    /\ loaded = FALSE
    /\ pendingSaves = <<>>
    /\ edited = FALSE
    /\ doc = <<>>
    /\ sel = [from |-> 0, to |-> 0]
    /\ activeFile = <<>>
    /\ dirs = {}
    /\ files = {}
    /\ invs = <<>>
    /\ last = [op |-> "step", busy |-> FALSE]

InitExtract ==
    /\ InitProg
    /\ inText \in StringsOver(TextAlphabet, MaxLen)
    /\ inMarker \in Markers
    /\ inSymbol \in Symbols
    /\ redacted = <<>>
    /\ redactedTwice = <<>>

ExtractOnce ==
    /\ redacted = <<>>
    /\ redacted' = << Extract(inText, inMarker, inSymbol) >>
    /\ UNCHANGED << inText, inMarker, inSymbol, redactedTwice >>
    /\ UNCHANGED progVars

ExtractAgain ==
    /\ redacted # <<>>
    /\ redactedTwice = <<>>
    /\ redactedTwice' = << Extract(redacted[1], inMarker, inSymbol) >>
    /\ UNCHANGED << inText, inMarker, inSymbol, redacted >>
    /\ UNCHANGED progVars

NextExtract == ExtractOnce \/ ExtractAgain

SpecExtract == InitExtract /\ [][NextExtract]_vars

---------------------------------------------------------------------------
(* The plugin: its commands, the settings tab and the editor. *)

AltValue ==
    [ redactedFolderPath |-> << "out" >>,
      redactionSymbol    |-> << "#" >>,
      redactionMarker    |-> << "=" >>,
      redactionShortcut  |-> << "Ctrl+R" >> ]

\* What the user can type into the field of a setting.
EditValues(f) == { DEFAULT_SETTINGS[f], AltValue[f] }

\* Saved data holding any subset of the four fields.
PersistedObjects ==
    { [f \in Fields |-> IF f \in present THEN AltValue[f] ELSE Undefined] :
        present \in SUBSET Fields }

InitPure ==
    /\ inText = <<>>
    /\ inMarker = <<>>
    /\ inSymbol = <<>>
    /\ redacted = <<>>
    /\ redactedTwice = <<>>

Init ==
    /\ settings = EmptyObject
    /\ defaults = DEFAULT_SETTINGS
    /\ data = <<>>
    /\ loaded = FALSE
    /\ pendingSaves = <<>>
    /\ edited = FALSE
    /\ doc = << "=", "a", "=" >>
    /\ sel = [from |-> 0, to |-> 3]
    /\ activeFile \in { <<>>, << << "n.md" >> >> }
    /\ dirs = { <<>> }
    /\ files = {}
    /\ invs = <<>>
    /\ last = [op |-> "step", busy |-> FALSE]
    /\ InitPure

Next ==
    \/ Onload
    \/ \E f \in { "redactedFolderPath" } :
          \E v \in EditValues(f) : SettingsEdit(f, v)
    \/ SaveComplete
    \/ Toggle
    \/ RedactStart
    \/ \E i \in 1..MaxInvocations : RedactAccess(i)
    \/ \E i \in 1..MaxInvocations, ok \in BOOLEAN : RedactMkdir(i, ok)
    \/ \E i \in 1..MaxInvocations, ok \in BOOLEAN : RedactWrite(i, ok)

Spec == Init /\ [][Next]_vars

---------------------------------------------------------------------------
(* The settings: load, edit, save. *)

InitSettings ==
    /\ settings = EmptyObject
    /\ defaults = DEFAULT_SETTINGS
    /\ data \in { <<>> } \cup { << o >> : o \in PersistedObjects }
    /\ loaded = FALSE
    /\ pendingSaves = <<>>
    /\ edited = FALSE
    /\ doc = << "a" >>
    /\ sel = [from |-> 0, to |-> 1]
    /\ activeFile = <<>>
    /\ dirs = { <<>> }
    /\ files = {}
    /\ invs = <<>>
    /\ last = [op |-> "step", busy |-> FALSE]
    /\ InitPure

NextSettings ==
    \/ Onload
    \/ \E f \in Fields : \E v \in EditValues(f) : SettingsEdit(f, v)
    \/ SaveComplete
    \/ Toggle

SpecSettings == InitSettings /\ [][NextSettings]_vars

---------------------------------------------------------------------------
(* The toggle command on every small document and selection. *)

DocAlphabet == { "a", " ", NL }

InitToggle ==
    /\ settings \in { [DEFAULT_SETTINGS EXCEPT !.redactionMarker = m] :
                        m \in { <<>>, << "=" >>, << "=", "=" >> } }
    /\ defaults = DEFAULT_SETTINGS
    /\ data = <<>>
    /\ loaded = TRUE
    /\ pendingSaves = <<>>
    /\ edited = FALSE
    /\ doc \in StringsOver(DocAlphabet, MaxDocLen)
    /\ \E from, to \in 0..MaxDocLen :
          /\ from <= to /\ to <= Len(doc)
          /\ sel = [from |-> from, to |-> to]
    /\ activeFile = <<>>
    /\ dirs = { <<>> }
    /\ files = {}
    /\ invs = <<>>
    /\ last = [op |-> "step", busy |-> FALSE]
    /\ InitPure

NextToggle == Toggle

SpecToggle == InitToggle /\ [][NextToggle]_vars

---------------------------------------------------------------------------
(* Vocabulary of the claims about the transform. *)

\* The marker occurs literally at position i.
LitAt(t, i, m) ==
    /\ i >= 1
    /\ i + Len(m) - 1 <= Len(t)
    /\ \A k \in 1..Len(m) : m[k] = t[i + k - 1]

Occurrences(t, m) == { i \in 1..Len(t) : LitAt(t, i, m) }

\* Two non-overlapping literal occurrences of the marker: a delimited pair.
LiteralPair(t, m) ==
    \E i, j \in Occurrences(t, m) : j >= i + Len(m)

MetaFree(m) == \A k \in 1..Len(m) : m[k] # Dot

SharesNoChar(s, m) == \A i \in 1..Len(s), k \in 1..Len(m) : s[i] # m[k]

\* P is the set of delimiter positions of a reading of t as
\* u0 m s1 m u1 ... m sN m uN [m tail]: the delimiters do not overlap and no
\* segment between them contains the marker.
Decomposition(t, m, P) ==
    /\ P \subseteq Occurrences(t, m)
    /\ \A p, q \in P : p < q => q >= p + Len(m)
    /\ \A o \in Occurrences(t, m) \ P :
          \E p \in P : o < p + Len(m) /\ p < o + Len(m)

\* No occurrence of the marker other than the delimiters begins before the
\* last delimiter.
Unambiguous(t, m, P) ==
    \A o \in Occurrences(t, m) \ P : P # {} /\ o > Max(P)

\* What the claim says the transform returns for the reading P, from i on.
RECURSIVE Expected(_, _, _, _, _)
Expected(t, i, m, sym, P) ==
    IF i > Len(t) THEN <<>>
    ELSE IF i \in P
         THEN LET rest == { q \in P : q > i }
              IN  IF rest = {} THEN SubSeq(t, i, Len(t))
                  ELSE LET c == Min(rest)
                       IN  Repeat(sym, c - i - Len(m)) \o
                           Expected(t, c + Len(m), m, sym, P \ {i, c})
         ELSE << t[i] >> \o Expected(t, i + 1, m, sym, P)

\* Every span the scan redacts from position i on is non-empty.
RECURSIVE SpansNonEmptyFrom(_, _, _)
SpansNonEmptyFrom(t, i, m) ==
    IF i > Len(t) \/ m = <<>> THEN TRUE
    ELSE IF MatchAt(t, i, m)
         THEN /\ CloseOf(t, i, m) > i + Len(m)
              /\ SpansNonEmptyFrom(t, CloseOf(t, i, m) + Len(m), m)
         ELSE SpansNonEmptyFrom(t, i + 1, m)

---------------------------------------------------------------------------
(* Claims about the transform, under SpecExtract. *)

\* C1 as stated: for a non-empty metacharacter-free marker and every reading
\* of the text as u0 m s1 m u1 ... m sN m uN [m tail] whose segments do not
\* contain m, the result is u0 k^len(s1) u1 ... k^len(sN) uN [m tail].
C1_AsStated ==
    (redacted # <<>> /\ inMarker # <<>> /\ MetaFree(inMarker)) =>
        \A P \in SUBSET Occurrences(inText, inMarker) :
            Decomposition(inText, inMarker, P) =>
                redacted[1] = Expected(inText, 1, inMarker, inSymbol, P)

\* C1 amended: the same, for the readings in which the marker occurs nowhere
\* before the last delimiter except at the delimiters.
C1_Extract ==
    (redacted # <<>> /\ inMarker # <<>> /\ MetaFree(inMarker)) =>
        \A P \in SUBSET Occurrences(inText, inMarker) :
            (Decomposition(inText, inMarker, P) /\ Unambiguous(inText, inMarker, P)) =>
                redacted[1] = Expected(inText, 1, inMarker, inSymbol, P)

\* Two spans and an unterminated marker were read and masked.
C1_Witness ==
    /\ redacted # <<>>
    /\ inMarker # <<>> /\ MetaFree(inMarker)
    /\ inSymbol = <<"#", "%">>
    /\ \E P \in SUBSET Occurrences(inText, inMarker) :
          /\ Decomposition(inText, inMarker, P)
          /\ Unambiguous(inText, inMarker, P)
          /\ Cardinality(P) = 5
          /\ \E i \in 1..Len(redacted[1]) : redacted[1][i] = "%"

\* C2 as stated: with an empty marker, or a text holding no marker-delimited
\* pair, the transform returns the text unchanged.
C2_Unchanged ==
    (redacted # <<>> /\ (inMarker = <<>> \/ ~LiteralPair(inText, inMarker))) =>
        redacted[1] = inText

\* C7 as stated: when the mask symbol shares no character with the marker,
\* the transform applied to its own result returns that result.
C7_AsStated ==
    (redactedTwice # <<>> /\ SharesNoChar(inSymbol, inMarker)) =>
        redactedTwice[1] = redacted[1]

\* C7 amended: when moreover the mask symbol and the marker are non-empty,
\* the marker holds no regex metacharacter and no redacted span is empty, the
\* result holds no further marker-delimited pair and the transform applied
\* to it returns it.
C7_Idempotent ==
    ( /\ redactedTwice # <<>>
      /\ SharesNoChar(inSymbol, inMarker)
      /\ inSymbol # <<>> /\ inMarker # <<>> /\ MetaFree(inMarker)
      /\ SpansNonEmptyFrom(inText, 1, inMarker) ) =>
        /\ ~LiteralPair(redacted[1], inMarker)
        /\ redactedTwice[1] = redacted[1]

\* A text with a redacted span went through the transform twice.
C7_Witness ==
    /\ redactedTwice # <<>>
    /\ SharesNoChar(inSymbol, inMarker)
    /\ inSymbol # <<>> /\ inMarker # <<>> /\ MetaFree(inMarker)
    /\ SpansNonEmptyFrom(inText, 1, inMarker)
    /\ redacted[1] # inText
    /\ Len(inMarker) = 2

---------------------------------------------------------------------------
(* Claims about 'Redact and Extract', under Spec. *)

SuccessNotice == "Redacted text extracted to"

\* C3 as stated: an invocation whose mkdir or writeFile failed completes
\* normally, has shown a failure notice and no success notice, and has called
\* writeFile at most once.
C3_FailureCaught ==
    \A i \in DOMAIN invs :
        invs[i].failed =>
            /\ invs[i].pc = "done"
            /\ \E k \in DOMAIN invs[i].notices : invs[i].notices[k] # SuccessNotice
            /\ \A k \in DOMAIN invs[i].notices : invs[i].notices[k] # SuccessNotice
            /\ Len(invs[i].writes) <= 1

\* C4 as stated: no 'Redact and Extract', 'Toggle Redaction Marker' or
\* settings-edit handler begins while a 'Redact and Extract' invocation has
\* started and not finished.
C4_Serialized ==
    last.op \in { "redactStart", "toggle", "settingsEdit" } => ~last.busy

C5_WitnessNoFile ==
    \E i \in DOMAIN invs :
        /\ invs[i].start.settings.redactedFolderPath # <<>>
        /\ invs[i].start.file = <<>>
        /\ invs[i].pc = "done"

\* What an invocation is to write, from the state it started in.
SnapshotPath(inv) ==
    PathJoin(inv.start.settings.redactedFolderPath, inv.start.file[1])

SnapshotContent(inv) ==
    Extract(inv.start.doc, inv.start.settings.redactionMarker,
            inv.start.settings.redactionSymbol)

\* The mkdir and writeFile calls of an invocation are those of its snapshot.
CallsSnapshot(inv) ==
    /\ \A k \in DOMAIN inv.mkdirs : inv.mkdirs[k] = Dirname(SnapshotPath(inv))
    /\ \A k \in DOMAIN inv.writes :
          inv.writes[k] = [path |-> SnapshotPath(inv), content |-> SnapshotContent(inv)]

\* C10: every mkdir and writeFile call of an invocation has the path and the
\* content fixed by the document, the active file and the settings as they
\* were when the invocation started, whatever was edited since; and a step of
\* an invocation changes neither the document nor the settings.
C10_Snapshot ==
    [][ invs' # invs =>
          /\ doc' = doc /\ sel' = sel /\ settings' = settings
          /\ \A i \in DOMAIN invs' :
                (i \notin DOMAIN invs \/ invs'[i] # invs[i]) => CallsSnapshot(invs'[i])
      ]_vars

\* A write completed after the document and the output path were both edited
\* while the invocation was awaiting.
C10_Witness ==
    /\ last.op = "redactWrite"
    /\ invs[last.inv].pc = "done"
    /\ doc # invs[last.inv].start.doc
    /\ settings.redactedFolderPath # invs[last.inv].start.settings.redactedFolderPath

---------------------------------------------------------------------------
(* Claims about the settings, under SpecSettings. *)

\* C6: after loadSettings each of the four fields is present, with the
\* persisted value if the persisted data has the field and the hardcoded
\* default otherwise, and DEFAULT_SETTINGS is as it was written.
C6_LoadMerges ==
    /\ defaults = DEFAULT_SETTINGS
    /\ (loaded /\ ~edited) =>
          \A f \in Fields :
              /\ settings[f] # Undefined
              /\ settings[f] =
                    IF data # <<>> /\ data[1][f] # Undefined THEN data[1][f]
                    ELSE CASE f = "redactedFolderPath" -> <<>>
                           [] f = "redactionMarker"    -> << "=", "=" >>
                           [] f = "redactionShortcut"  -> << "Ctrl+Shift+R" >>
                           [] f = "redactionSymbol"    -> << "U+00E2", "U+2013", "U+02C6" >>

\* Loaded from data that holds the mask symbol alone.
C6_Witness ==
    /\ loaded /\ ~edited
    /\ data = << [EmptyObject EXCEPT !.redactionSymbol = << "#" >>] >>
    /\ settings.redactionSymbol = << "#" >>
    /\ settings.redactionMarker = << "=", "=" >>

C9_WitnessQuiet ==
    /\ edited
    /\ pendingSaves = <<>>
    /\ data = << settings >>
    /\ \E f, g \in Fields :
          /\ f # g
          /\ settings[f] # LoadSettingsResult(defaults, <<>>).settings[f]
          /\ settings[g] # LoadSettingsResult(defaults, <<>>).settings[g]

---------------------------------------------------------------------------
(* Claims about 'Toggle Redaction Marker', under SpecToggle. *)

NonBlank(line) == \E k \in 1..Len(line) : line[k] \notin Whitespace

\* C8: after a toggle on a non-empty selection the selection is replaced by
\* its lines, as many as before, each non-blank one between two markers and
\* each blank one as it was, and the text around it is as it was; after a
\* toggle on a caret the marker stands at the caret, the rest is as it was and
\* the caret is on its line, Len(marker) columns further.
C8_Toggle ==
    last.op = "toggle" =>
        LET d0 == last.doc
            from == last.sel.from
            to == last.sel.to
            m == last.marker
            tailLen == Len(d0) - to
        IN  IF from < to
            THEN LET old == SplitLines(SubSeq(d0, from + 1, to))
                     new == SplitLines(SubSeq(doc, from + 1, Len(doc) - tailLen))
                 IN  /\ SubSeq(doc, 1, from) = SubSeq(d0, 1, from)
                     /\ SubSeq(doc, Len(doc) - tailLen + 1, Len(doc)) = SubSeq(d0, to + 1, Len(d0))
                     /\ Len(new) = Len(old)
                     /\ \A i \in 1..Len(old) :
                           new[i] = IF NonBlank(old[i]) THEN m \o old[i] \o m ELSE old[i]
            ELSE /\ doc = SubSeq(d0, 1, to) \o m \o SubSeq(d0, to + 1, Len(d0))
                 /\ sel.from = sel.to
                 /\ PosOf(doc, sel.to) = [ line |-> PosOf(d0, to).line,
                                           ch   |-> PosOf(d0, to).ch + Len(m) ]

\* A selection of a padded line and a blank line was toggled.
C8_Witness ==
    /\ last.op = "toggle"
    /\ last.marker = << "=", "=" >>
    /\ SubSeq(last.doc, last.sel.from + 1, last.sel.to) = << " ", "a", NL >>
    /\ doc = << "=", "=", " ", "a", "=", "=", NL >>

\* The marker was inserted at a caret on the second line.
C8_WitnessCaret ==
    /\ last.op = "toggle"
    /\ last.marker = << "=", "=" >>
    /\ last.sel.from = last.sel.to
    /\ PosOf(last.doc, last.sel.to) = [line |-> 1, ch |-> 1]

===========================================================================
